---- MODULE Spec2Model ----
(***************************************************************************)
(* Model of src/index.js: the EventTracker orchestrator, the historical    *)
(* log fetcher (fetchLogs) with its retry timer, the live subscription     *)
(* (subscribe), and the log normalizer (parseEventLog / parseEventLogs)    *)
(* with its process-wide interface cache.                                  *)
(*                                                                         *)
(* The transport (web3Provider) and the ABI engine (ethers Interface) are  *)
(* the environment: the transport answers each request by failing or by    *)
(* succeeding with a batch of raw logs, and pushes logs or errors on an    *)
(* open subscription; an interface decodes a log iff the log's topic is    *)
(* one of the events its ABI declares.                                     *)
(*                                                                         *)
(* Specifications: Spec (one trackEvent call, any descriptor), FairSpec    *)
(* (Spec with timers and transport fair), SeqSpec (several calls on one    *)
(* contract), TopicSpec (descriptors with a params filter), NormSpec (logs *)
(* with any decoded values) and FetchSpec (fetchLogs called directly).     *)
(***************************************************************************)
EXTENDS Integers, Sequences, FiniteSets, TLC

\* ------------------------------------------------------------------ bounds
MaxCalls == 1       \* trackEvent calls per behaviour
MaxHead == 2        \* largest chain head the transport reports
MaxBlockArg == 1    \* largest fromBlock / backFillBlockCount a descriptor carries
MaxFail == 1        \* transport failures per historical fetch
MaxLogs == 1        \* raw logs in one eth_getLogs response
MaxPush == 2        \* notifications pushed on the live channels
MaxSeqCalls == 2    \* trackEvent calls per behaviour of SeqSpec
MaxFetches == 1     \* direct fetchLogs calls per behaviour of FetchSpec

\* ------------------------------------------------------- JavaScript values
\* An optional value: <<>> is undefined, <<v>> is the value v.
Undefined == <<>>
Some(v) == <<v>>
IsUndefined(o) == o = <<>>
ValueOf(o) == o[1]

\* JavaScript truthiness of a number (0 is falsy; NaN is not modelled).
Truthy(n) == n # 0

\* String.prototype.toLowerCase on the addresses of the model.
ToLowerCase(s) ==
  CASE s = "0xAB" -> "0xab"
    [] s = "0xCD" -> "0xcd"
    [] s = "0xA1" -> "0xa1"
    [] s = "0xDEF" -> "0xdef"
    [] OTHER -> s

\* ------------------------------------------------------------ input sets
EventNames == {"Transfer", "Approval"}
\* An ABI is the set of event names it declares.
Abis == {{"Transfer"}, {"Transfer", "Approval"}}
Addresses == {"0xAB", "0xCD"}
Contracts == {"0xAB", ""}
Heads == 1..MaxHead
OptBlocks == {Undefined} \cup {Some(n) : n \in 0..MaxBlockArg}

\* A JavaScript value of a `params` object or of a decoded log: null, a
\* number (also standing for a big number) or a string.
JsNull == [t |-> "null", n |-> 0, s |-> ""]
Num(n) == [t |-> "number", n |-> n, s |-> ""]
Str(x) == [t |-> "string", n |-> 0, s |-> x]
ParamValues == {JsNull, Num(0), Str("0xA1")}

\* The declared inputs of an event, in declaration order (all indexed).
Inputs(name) ==
  CASE name = "Transfer" -> <<"from", "to", "tokenId">>
    [] name = "Approval" -> <<"owner", "approved", "tokenId">>
    [] name = "Resize" -> <<"length">>
    [] OTHER -> <<>>

\* RawLog: the transport's log record (the fields the code branches on);
\* data holds, per declared input, the value the log carries for it.
RawLogs ==
  {[address |-> a, topic |-> t, data |-> <<Str("0xDEF"), Str("0xCD"), Num(1000)>>] :
     a \in Addresses, t \in EventNames}
\* What the subscription callback receives as `log` with an error.
NoLog == [address |-> "", topic |-> "", data |-> <<>>]

\* Raw logs of the events Transfer and Resize with every choice of values.
DataValues == {Num(1000), Str("0xDEF")}
NormLogs ==
  {l \in [address : Addresses, topic : {"Transfer", "Resize"},
          data : UNION {[1..n -> DataValues] : n \in {1, 3}}] :
     Len(l.data) = Len(Inputs(l.topic))}

\* The descriptor whose ABI declares Transfer and Resize.
NormDescriptors ==
  [name : {"Transfer"}, contract : {"0xAB"}, abi : {{"Transfer", "Resize"}},
   parser : BOOLEAN, fromBlock : {Undefined, Some(1)},
   backFillBlockCount : {Undefined}, params : {Undefined}]

\* _.identity as a predicate on such a value.
TruthyValue(v) ==
  CASE v.t = "null" -> FALSE
    [] v.t = "number" -> v.n # 0
    [] OTHER -> v.s # ""

\* The `params` objects over the inputs of an event: any subset of the
\* names, each with a value (the empty one stands for undefined and {}).
ParamsOf(name) ==
  UNION {[K -> ParamValues] : K \in SUBSET {Inputs(name)[i] : i \in 1..Len(Inputs(name))}}

\* EventDescriptor (spec section 3); parser is TRUE when one is supplied.
Descriptors ==
  [name : EventNames, contract : Contracts, abi : Abis, parser : BOOLEAN,
   fromBlock : OptBlocks, backFillBlockCount : OptBlocks, params : {Undefined}]

\* Descriptors of the Transfer event that differ in `params` only.
TopicDescriptors ==
  [name : {"Transfer"}, contract : {"0xAB"}, abi : {{"Transfer"}}, parser : {FALSE},
   fromBlock : {Undefined}, backFillBlockCount : {Undefined},
   params : ParamsOf("Transfer")]

RECURSIVE SeqsUpTo(_, _)
SeqsUpTo(S, n) ==
  IF n = 0 THEN {<<>>}
  ELSE LET shorter == SeqsUpTo(S, n - 1)
       IN shorter \cup {Append(s, x) : s \in {t \in shorter : Len(t) = n - 1}, x \in S}

Responses == SeqsUpTo(RawLogs, MaxLogs)

\* ------------------------------------------------------------------ state
VARIABLES
  calls,          \* trackEvent invocations: descriptor, position, outcome
  trackedEvents,  \* EventTracker.trackedEvents
  fetches,        \* fetchLogs promise chains started by fetchHistoricalLogs
  subs,           \* live subscriptions opened through web3Provider.eth.subscribe
  abiInterfaces,  \* module-level interface cache: address -> optional ABI
  trace,          \* requests sent to the transport and invocations of
                  \* application functions (hooks, parser, callback), in order
  pushes          \* number of notifications pushed so far

vars == <<calls, trackedEvents, fetches, subs, abiInterfaces, trace, pushes>>

Ev(kind, id, arg) == [kind |-> kind, id |-> id, arg |-> arg]

\* ------------------------------------------------------------ normalizer
\* abiInterface.parseLog(log): succeeds iff the interface declares the
\* log's event; throws (or yields nothing) otherwise, and throws on the
\* absent log of an error notification.
Decodes(log, abi) == log # NoLog /\ log.topic \in abi

\* The null that parseEventLog returns for an undecodable log.
Null == [decoded |-> FALSE, address |-> "", name |-> "", values |-> <<>>]

\* Number(s) for the decimal strings of the model; NaN counts as 0 in _.range.
Number(s) ==
  IF \E n \in 0..9 : ToString(n) = s THEN CHOOSE n \in 0..9 : ToString(n) = s ELSE 0

\* parsedLog.values as the ABI engine emits it: every value under its
\* position, again under the declared name of its input, and then the
\* number of inputs under `length`.
ParsedValues(log) ==
  LET inputs == Inputs(log.topic)
      n == Len(inputs)
      positions == {ToString(i - 1) : i \in 1..n}
      names == {inputs[i] : i \in 1..n}
  IN [k \in positions \cup names \cup {"length"} |->
        IF k = "length" THEN Num(n)
        ELSE IF k \in names THEN log.data[CHOOSE i \in 1..n : inputs[i] = k]
        ELSE log.data[Number(k) + 1]]

\* _.startsWith(stringVal, '0x') on the strings of the model.
StartsWith0x(s) == s \in {"0xAB", "0xCD", "0xA1", "0xDEF"}

\* The mapValues callback: `(v.toString ? v.toString() : v) || ''`, then
\* lower case for a string that starts with 0x.
Stringify(v) ==
  LET stringVal == IF v.t = "number" THEN ToString(v.n) ELSE v.s
  IN IF StartsWith0x(stringVal) THEN ToLowerCase(stringVal) ELSE stringVal

\* formattedLogValues: parsedLogValues without the keys of argumentRange
\* and without `length`.
formattedLogValues(parsedLogValues) ==
  LET argumentRange == {ToString(p) : p \in 0..(Number(parsedLogValues["length"]) - 1)}
  IN [k \in {k \in DOMAIN parsedLogValues : k \notin argumentRange /\ k # "length"} |->
        parsedLogValues[k]]

\* parseEventLog(log, abiInterface): null on a decode failure, else the
\* normalized record (address lowercased, event name from the parsed log,
\* the stringified and filtered values).
parseEventLog(log, abi) ==
  IF ~Decodes(log, abi) THEN Null
  ELSE [decoded |-> TRUE, address |-> ToLowerCase(log.address), name |-> log.topic,
        values |-> formattedLogValues([k \in DOMAIN ParsedValues(log) |->
                                         Stringify(ParsedValues(log)[k])])]

\* _.compact: drops the falsy (null) entries, keeps the order.
RECURSIVE compact(_)
compact(s) ==
  IF s = <<>> THEN <<>>
  ELSE IF Head(s) = Null THEN compact(Tail(s))
  ELSE <<Head(s)>> \o compact(Tail(s))

\* `new ethers.utils.Interface(abi)` in parseEventLogs: a new object, told
\* apart from the ones built before by its number.
NewInterface(abi, cache) ==
  [abi |-> abi, id |-> Cardinality({a \in DOMAIN cache : ~IsUndefined(cache[a])}) + 1]

\* The interface parseEventLogs uses for a non-empty batch: the one cached
\* under the first log's address if any, else a new one built from abi.
InterfaceFor(logs, abi, cache) ==
  IF IsUndefined(cache[logs[1].address]) THEN NewInterface(abi, cache)
  ELSE ValueOf(cache[logs[1].address])

\* parseEventLogs(logs, abi): the returned sequence.
parseEventLogs(logs, abi, cache) ==
  IF Len(logs) = 0 THEN logs
  ELSE compact([i \in 1..Len(logs) |->
                  parseEventLog(logs[i], InterfaceFor(logs, abi, cache).abi)])

\* Mutant: the cached interface is rebuilt from the ABI of every batch.
CacheAfter_Replaces(logs, abi, cache) ==
  IF Len(logs) = 0 THEN cache
  ELSE [cache EXCEPT ![logs[1].address] = Some(NewInterface(abi, cache))]

\* parseEventLogs(logs, abi): the cache it leaves behind.
CacheAfter(logs, abi, cache) ==
  IF Len(logs) = 0 THEN cache
  ELSE [cache EXCEPT ![logs[1].address] = Some(InterfaceFor(logs, abi, cache))]

\* ------------------------------------------------------------ payloads
\* What an application function receives: a sequence of records ("seq") or
\* one bare record ("bare"), as returned by the normalizer (parsed = FALSE)
\* or as returned by the descriptor's parser applied to it (parsed = TRUE).
Payload(shape, items, parsed) == [shape |-> shape, items |-> items, parsed |-> parsed]
NoPayload == Payload("none", <<>>, FALSE)

\* ------------------------------------------------------- query encoding
HexDigit(d) ==
  <<"0", "1", "2", "3", "4", "5", "6", "7", "8", "9", "a", "b", "c", "d", "e", "f">>[d + 1]

\* The digits of hexStripZeros(hexlify(n)) for n > 0.
RECURSIVE HexDigits(_)
HexDigits(n) == IF n = 0 THEN <<>> ELSE Append(HexDigits(n \div 16), HexDigit(n % 16))

\* `block ? hexStripZeros(hexlify(block)) : 'latest'`; hexlify throws on a
\* negative number.
EncodeBlock(block) ==
  IF ~Truthy(block) THEN <<"latest">>
  ELSE IF block < 0 THEN <<"throw">>
  ELSE <<"0x">> \o HexDigits(block)

\* `contractAddress || undefined`
AddressOrUndefined(contract) == IF contract = "" THEN Undefined ELSE Some(contract)

\* logParams[0] of fetchLogs.
LogParams(contract, topics, fromBlock, toBlock) ==
  [address |-> AddressOrUndefined(contract), topics |-> topics,
   fromBlock |-> EncodeBlock(fromBlock), toBlock |-> EncodeBlock(toBlock)]

HexlifyThrows(fromBlock, toBlock) ==
  EncodeBlock(fromBlock) = <<"throw">> \/ EncodeBlock(toBlock) = <<"throw">>

\* logParams of subscribe: _.pickBy(..., _.identity) drops falsy values.
SubscribeParams(contract, topics, fromBlock) ==
  [address |-> AddressOrUndefined(contract), topics |-> topics,
   fromBlock |-> IF Truthy(fromBlock) THEN Some(fromBlock) ELSE Undefined]

\* ------------------------------------------------------- topic derivation
\* getEventTopics throws when the ABI declares no event of that name.
UnknownEvent(event) == event.name \notin event.abi

\* `_.pickBy(paramsInputs || {}, _.identity)`
PickedParams(p) == [k \in {k \in DOMAIN p : TruthyValue(p[k])} |-> p[k]]

\* abiEvent.inputs.map(...): one entry per declared input, null where the
\* picked params have no value of that name.
paramsArray(event) ==
  LET params == PickedParams(event.params)
      inputs == Inputs(event.name)
  IN [i \in 1..Len(inputs) |->
        IF inputs[i] \in DOMAIN params THEN params[inputs[i]] ELSE JsNull]

\* A list without its trailing nulls.
RECURSIVE TrimNulls(_)
TrimNulls(q) ==
  IF q # <<>> /\ q[Len(q)] = JsNull THEN TrimNulls(SubSeq(q, 1, Len(q) - 1)) ELSE q

\* How the ABI engine encodes one filter value: hex strings in lower case,
\* null as null.
EncodeTopic(v) == IF v.t = "string" THEN Str(ToLowerCase(v.s)) ELSE v

\* abiInterface.encodeFilterTopics(name, values): the event's topic (its
\* name stands for it), then one entry per value, trailing nulls dropped.
encodeFilterTopics(name, values) ==
  <<name>> \o TrimNulls([i \in 1..Len(values) |-> EncodeTopic(values[i])])

\* The topic list of a known event.
getEventTopics(event) == encodeFilterTopics(event.name, paramsArray(event))

\* ------------------------------------------------------- historical fetch
\* The transport path of an attempt: provider.send when a provider was
\* passed, web3Provider.eth.getPastLogs otherwise.
PathOf(f) == IF f.provider THEN "provider.send" ELSE "getPastLogs"

\* fetchLogs up to its await: builds logParams and sends the query; the
\* promise is rejected before any query if hexlify throws.  Yields the
\* fetch's new state and the requests sent.
fetchLogs(f, fid) ==
  IF HexlifyThrows(f.fromBlock, f.toBlock)
  THEN [fetch |-> [f EXCEPT !.pc = "rejected"], events |-> <<>>]
  ELSE [fetch |-> [f EXCEPT !.pc = "attempt"],
        events |-> <<Ev("getLogs", fid,
                        [path |-> PathOf(f),
                         params |-> LogParams(f.contract, f.topics, f.fromBlock, f.toBlock)])>>]

\* Mutant: the catch block rejects the promise instead of retrying.
onTransportError_Rejects(f) == [f EXCEPT !.pc = "rejected", !.failures = @ + 1]

\* The catch block of fetchLogs: a timer is set; nothing is settled.
onTransportError(f) == [f EXCEPT !.pc = "timer", !.failures = @ + 1]

\* Mutant: the retry does not pass toBlock on.
onRetryTimer_DropsToBlock(f, fid) == fetchLogs([f EXCEPT !.provider = FALSE, !.toBlock = 0], fid)

\* Mutant: the retry gives up instead of asking again.
onRetryTimer_GivesUp(f, fid) == [fetch |-> [f EXCEPT !.pc = "rejected"], events |-> <<>>]

\* The timer callback: fetchLogs is called again with the same arguments
\* except the provider, which is not passed on.
onRetryTimer(f, fid) == fetchLogs([f EXCEPT !.provider = FALSE], fid)

\* The value fetchLogs resolves with after a successful response.
FetchResult(f, logs, cache) ==
  Payload("seq", parseEventLogs(logs, f.abi, cache), f.parser)

\* The `.then` continuation of fetchHistoricalLogs: the fetched hook,
\* then the callback; a fetchLogs call made directly (call 0) has none.
thenContinuation(f, fid, result) ==
  IF f.call = 0 THEN <<>>
  ELSE <<Ev("onFetchedHistoricalEvents", fid, result), Ev("callback", fid, result)>>

\* Mutant: the parser runs once per attempt made.
onTransportSuccess_ParsesPerAttempt(f, fid, logs, cache) ==
  LET normalized == Payload("seq", parseEventLogs(logs, f.abi, cache), FALSE)
      result == FetchResult(f, logs, cache)
  IN [fetch |-> [f EXCEPT !.pc = "resolved", !.response = Some(logs), !.result = Some(result)],
      cache |-> CacheAfter(logs, f.abi, cache),
      events |-> (IF f.parser
                  THEN [i \in 1..(f.failures + 1) |-> Ev("parser", fid, normalized)]
                  ELSE <<>>)
                 \o thenContinuation(f, fid, result)]

\* fetchLogs after a successful response, then the continuation
\* fetchHistoricalLogs attached: the parser (if any) is applied, the
\* promise chain resolves, the fetched hook and the callback are invoked.
onTransportSuccess(f, fid, logs, cache) ==
  LET normalized == Payload("seq", parseEventLogs(logs, f.abi, cache), FALSE)
      result == FetchResult(f, logs, cache)
  IN [fetch |-> [f EXCEPT !.pc = "resolved", !.response = Some(logs), !.result = Some(result)],
      cache |-> CacheAfter(logs, f.abi, cache),
      events |-> (IF f.parser THEN <<Ev("parser", fid, normalized)>> ELSE <<>>)
                 \o thenContinuation(f, fid, result)]

\* A fetchLogs call as it starts: its arguments and no attempt made yet.
NewFetch(call, contract, abi, topics, fromBlock, toBlock, parser, provider) ==
  [call |-> call, contract |-> contract, abi |-> abi,
   topics |-> topics, fromBlock |-> fromBlock, toBlock |-> toBlock,
   parser |-> parser, provider |-> provider, pc |-> "start",
   failures |-> 0, response |-> Undefined, result |-> Undefined]

\* Mutant: the fetching hook runs after the query was sent.
fetchHistoricalLogs_HookAfterQuery(call, event, topics, fromBlock, toBlock, fid) ==
  LET f == NewFetch(call, event.contract, event.abi, topics, fromBlock, toBlock,
                    event.parser, FALSE)
      started == fetchLogs(f, fid)
  IN [fetch |-> started.fetch,
      events |-> started.events \o <<Ev("onFetchingHistoricalEvents", fid, NoPayload)>>]

\* fetchHistoricalLogs(event, contract, abi, topics, fromBlock, toBlock, ...):
\* the fetching hook, then fetchLogs without a provider.
fetchHistoricalLogs(call, event, topics, fromBlock, toBlock, fid) ==
  LET f == NewFetch(call, event.contract, event.abi, topics, fromBlock, toBlock,
                    event.parser, FALSE)
      started == fetchLogs(f, fid)
  IN [fetch |-> started.fetch,
      events |-> <<Ev("onFetchingHistoricalEvents", fid, NoPayload)>> \o started.events]

\* ------------------------------------------------------- live subscription
\* Mutant: the subscription starts one block after the one it is given.
subscribe_AfterBoundary(call, event, topics, fromBlock, sid) ==
  [sub |-> [call |-> call, abi |-> event.abi, parser |-> event.parser,
            params |-> SubscribeParams(event.contract, topics, fromBlock + 1),
            open |-> TRUE],
   events |-> <<Ev("subscribe", sid, SubscribeParams(event.contract, topics, fromBlock + 1))>>]

\* subscribe(contract, abi, topics, fromBlock, callback, parser): the
\* subscription opened on the transport.
subscribe(call, event, topics, fromBlock, sid) ==
  [sub |-> [call |-> call, abi |-> event.abi, parser |-> event.parser,
            params |-> SubscribeParams(event.contract, topics, fromBlock),
            open |-> TRUE],
   events |-> <<Ev("subscribe", sid, SubscribeParams(event.contract, topics, fromBlock))>>]

\* Mutant: an error on the channel makes the callback unsubscribe.
onChannelError_Unsubscribes(sub) == [sub EXCEPT !.open = FALSE]

\* `if (error) { console.log(error) }`: the subscription is left as it is.
onChannelError(sub) == sub

\* The subscription callback (error, log): the error is only logged; the
\* log is parsed and handed to the parser or wrapped in a one-element array.
onLog(sub, sid, log) ==
  LET record == parseEventLog(log, sub.abi)
  IN IF sub.parser
     THEN <<Ev("liveParser", sid, Payload("bare", <<record>>, FALSE)),
            Ev("liveCallback", sid, Payload("bare", <<record>>, TRUE))>>
     ELSE <<Ev("liveCallback", sid, Payload("seq", <<record>>, FALSE))>>

\* ------------------------------------------------------------ orchestrator
\* Mutant: backFillBlockCount is looked at before fromBlock.
fromBlockNumberOverride_BackfillFirst(event, blockNumber) ==
  IF ~IsUndefined(event.backFillBlockCount)
  THEN Some(blockNumber - ValueOf(event.backFillBlockCount))
  ELSE IF ~IsUndefined(event.fromBlock) THEN Some(ValueOf(event.fromBlock))
       ELSE Undefined

\* The starting block subscribeToEvent resolves.
fromBlockNumberOverride(event, blockNumber) ==
  IF ~IsUndefined(event.fromBlock) THEN Some(ValueOf(event.fromBlock))
  ELSE IF ~IsUndefined(event.backFillBlockCount)
       THEN Some(blockNumber - ValueOf(event.backFillBlockCount))
       ELSE Undefined

\* `if (fromBlockNumberOverride)`
Backfills(event, blockNumber) ==
  LET o == fromBlockNumberOverride(event, blockNumber)
  IN ~IsUndefined(o) /\ Truthy(ValueOf(o))

\* subscribeToEvent(event, blockNumber): throws from getEventTopics before
\* anything else happens, else optionally starts the backfill and then
\* opens the live subscription.
subscribeToEvent(call, event, blockNumber, fid, sid) ==
  IF UnknownEvent(event)
  THEN [threw |-> TRUE, fetch |-> <<>>, sub |-> <<>>, events |-> <<>>]
  ELSE LET topics == getEventTopics(event)
           hist == fetchHistoricalLogs(call, event, topics,
                     ValueOf(fromBlockNumberOverride(event, blockNumber)), blockNumber, fid)
           live == subscribe(call, event, topics, blockNumber, sid)
       IN IF Backfills(event, blockNumber)
          THEN [threw |-> FALSE, fetch |-> <<hist.fetch>>, sub |-> <<live.sub>>,
                events |-> hist.events \o live.events]
          ELSE [threw |-> FALSE, fetch |-> <<>>, sub |-> <<live.sub>>,
                events |-> live.events]

\* latestBlock.number - 1
latestBlockNumber(head) == head - 1

\* Mutant: the descriptor is pushed even when subscribeToEvent threw.
trackedAfter_Always(tracked, event, threw) == Append(tracked, event)

\* Mutant: the tracked list is reset to the new descriptor.
trackedAfter_Replaces(tracked, event, threw) == IF threw THEN tracked ELSE <<event>>

\* trackEvent after subscribeToEvent: `this.trackedEvents.push(event)` is
\* reached only if subscribeToEvent did not throw.
trackedAfter(tracked, event, threw) == IF threw THEN tracked ELSE Append(tracked, event)

\* ------------------------------------------------------------------ Init
Init ==
  /\ calls = <<>>
  /\ trackedEvents = <<>>
  /\ fetches = <<>>
  /\ subs = <<>>
  /\ abiInterfaces = [a \in Addresses |-> Undefined]
  /\ trace = <<>>
  /\ pushes = 0

\* --------------------------------------------------------------- actions
\* trackEvent(event) up to `await fetchLatestBlock()`.
TrackEvent(event) ==
  /\ calls' = Append(calls, [event |-> event, pc |-> "awaitBlock",
                             blockNumber |-> Undefined, error |-> "",
                             result |-> Undefined])
  /\ trace' = Append(trace, Ev("getBlock", Len(calls) + 1, NoPayload))
  /\ UNCHANGED <<trackedEvents, fetches, subs, abiInterfaces, pushes>>

\* fetchLatestBlock rejects: trackEvent rejects with the transport's error.
GetBlockFails(c) ==
  /\ calls[c].pc = "awaitBlock"
  /\ calls' = [calls EXCEPT ![c].pc = "rejected", ![c].error = "transport"]
  /\ UNCHANGED <<trackedEvents, fetches, subs, abiInterfaces, trace, pushes>>

\* fetchLatestBlock resolves with head: the rest of trackEvent.  What
\* subscribeToEvent did before throwing stays done; the push and the
\* `return true` are reached only if it did not throw.
GetBlockResolves(c, head) ==
  /\ calls[c].pc = "awaitBlock"
  /\ LET event == calls[c].event
         blockNumber == latestBlockNumber(head)
         r == subscribeToEvent(c, event, blockNumber, Len(fetches) + 1, Len(subs) + 1)
     IN /\ calls' = [calls EXCEPT ![c].pc = IF r.threw THEN "rejected" ELSE "returned",
                                  ![c].error = IF r.threw THEN "UnknownEvent" ELSE "",
                                  ![c].blockNumber = Some(blockNumber),
                                  ![c].result = IF r.threw THEN Undefined ELSE Some(TRUE)]
        /\ fetches' = fetches \o r.fetch
        /\ subs' = subs \o r.sub
        /\ trace' = trace \o r.events
        /\ trackedEvents' = trackedAfter(trackedEvents, event, r.threw)
  /\ UNCHANGED <<abiInterfaces, pushes>>

\* fetchLogs(contract, abi, topic, fromBlock, toBlock, parser, provider)
\* called directly, with or without an adapter provider.
CallFetchLogs(contract, abi, topics, fromBlock, toBlock, parser, provider) ==
  /\ LET r == fetchLogs(NewFetch(0, contract, abi, topics, fromBlock, toBlock,
                                 parser, provider),
                        Len(fetches) + 1)
     IN /\ fetches' = Append(fetches, r.fetch)
        /\ trace' = trace \o r.events
  /\ UNCHANGED <<calls, trackedEvents, subs, abiInterfaces, pushes>>

\* The transport fails the outstanding eth_getLogs request of fetch f.
TransportFail(f) ==
  /\ fetches[f].pc = "attempt"
  /\ fetches[f].failures < MaxFail
  /\ fetches' = [fetches EXCEPT ![f] = onTransportError(fetches[f])]
  /\ UNCHANGED <<calls, trackedEvents, subs, abiInterfaces, trace, pushes>>

\* The 1000 ms retry timer of fetch f fires.
TimerFires(f) ==
  /\ fetches[f].pc = "timer"
  /\ LET r == onRetryTimer(fetches[f], f)
     IN /\ fetches' = [fetches EXCEPT ![f] = r.fetch]
        /\ trace' = trace \o r.events
  /\ UNCHANGED <<calls, trackedEvents, subs, abiInterfaces, pushes>>

\* The transport answers the outstanding request of fetch f with logs.
TransportSucceed(f, logs) ==
  /\ fetches[f].pc = "attempt"
  /\ LET r == onTransportSuccess(fetches[f], f, logs, abiInterfaces)
     IN /\ fetches' = [fetches EXCEPT ![f] = r.fetch]
        /\ abiInterfaces' = r.cache
        /\ trace' = trace \o r.events
  /\ UNCHANGED <<calls, trackedEvents, subs, pushes>>

\* The transport pushes a log on subscription s.
LivePush(s, log) ==
  /\ subs[s].open
  /\ pushes < MaxPush
  /\ pushes' = pushes + 1
  /\ trace' = Append(trace, Ev("push", s, log)) \o onLog(subs[s], s, log)
  /\ UNCHANGED <<calls, trackedEvents, fetches, subs, abiInterfaces>>

\* The transport reports an error on subscription s (no log comes with it).
LiveError(s) ==
  /\ subs[s].open
  /\ pushes < MaxPush
  /\ pushes' = pushes + 1
  /\ subs' = [subs EXCEPT ![s] = onChannelError(subs[s])]
  /\ trace' = Append(trace, Ev("pushError", s, NoLog)) \o onLog(subs[s], s, NoLog)
  /\ UNCHANGED <<calls, trackedEvents, fetches, abiInterfaces>>

Next ==
  \/ \E event \in Descriptors : Len(calls) < MaxCalls /\ TrackEvent(event)
  \/ \E c \in 1..Len(calls) : GetBlockFails(c)
  \/ \E c \in 1..Len(calls), head \in Heads : GetBlockResolves(c, head)
  \/ \E f \in 1..Len(fetches) : TransportFail(f)
  \/ \E f \in 1..Len(fetches) : TimerFires(f)
  \/ \E f \in 1..Len(fetches), logs \in Responses : TransportSucceed(f, logs)
  \/ \E s \in 1..Len(subs), log \in RawLogs : LivePush(s, log)
  \/ \E s \in 1..Len(subs) : LiveError(s)

Spec == Init /\ [][Next]_vars

\* Timers that are set fire, and the transport eventually answers a query
\* that keeps being asked.
Fairness ==
  \A f \in 1..MaxCalls :
    /\ WF_vars(f \in 1..Len(fetches) /\ TimerFires(f))
    /\ SF_vars(f \in 1..Len(fetches) /\ \E logs \in Responses : TransportSucceed(f, logs))

FairSpec == Init /\ [][Next]_vars /\ Fairness

\* Several trackEvent calls on one tracker: descriptors of one contract
\* that all backfill from block 1, with either ABI and either event name.
SeqDescriptors ==
  {d \in Descriptors :
     /\ d.contract = "0xAB"
     /\ ~d.parser
     /\ d.fromBlock = Some(1)
     /\ IsUndefined(d.backFillBlockCount)}

SeqNext ==
  \/ \E event \in SeqDescriptors : Len(calls) < MaxSeqCalls /\ TrackEvent(event)
  \/ \E c \in 1..Len(calls) : GetBlockFails(c)
  \/ \E c \in 1..Len(calls), head \in Heads : GetBlockResolves(c, head)
  \/ \E f \in 1..Len(fetches) : TransportFail(f)
  \/ \E f \in 1..Len(fetches) : TimerFires(f)
  \/ \E f \in 1..Len(fetches), logs \in Responses : TransportSucceed(f, logs)

SeqSpec == Init /\ [][SeqNext]_vars

\* One trackEvent call whose descriptor carries a `params` filter.
TopicNext ==
  \/ \E event \in TopicDescriptors : Len(calls) < MaxCalls /\ TrackEvent(event)
  \/ \E c \in 1..Len(calls) : GetBlockFails(c)
  \/ \E c \in 1..Len(calls), head \in Heads : GetBlockResolves(c, head)

TopicSpec == Init /\ [][TopicNext]_vars

\* One trackEvent call on a contract that emits Transfer and Resize logs
\* with any values.
NormNext ==
  \/ \E event \in NormDescriptors : Len(calls) < MaxCalls /\ TrackEvent(event)
  \/ \E c \in 1..Len(calls) : GetBlockFails(c)
  \/ \E c \in 1..Len(calls), head \in Heads : GetBlockResolves(c, head)
  \/ \E f \in 1..Len(fetches) : TransportFail(f)
  \/ \E f \in 1..Len(fetches) : TimerFires(f)
  \/ \E f \in 1..Len(fetches), logs \in SeqsUpTo(NormLogs, MaxLogs) : TransportSucceed(f, logs)
  \/ \E s \in 1..Len(subs), log \in NormLogs : LivePush(s, log)
  \/ \E s \in 1..Len(subs) : LiveError(s)

NormSpec == Init /\ [][NormNext]_vars

\* fetchLogs called directly, through either transport path.
FetchNext ==
  \/ \E contract \in Contracts, abi \in Abis, name \in EventNames,
        fromBlock \in 0..MaxBlockArg, toBlock \in 0..MaxBlockArg,
        parser \in BOOLEAN, provider \in BOOLEAN :
       /\ Len(fetches) < MaxFetches
       /\ CallFetchLogs(contract, abi, <<name>>, fromBlock, toBlock, parser, provider)
  \/ \E f \in 1..Len(fetches) : TransportFail(f)
  \/ \E f \in 1..Len(fetches) : TimerFires(f)
  \/ \E f \in 1..Len(fetches), logs \in Responses : TransportSucceed(f, logs)

FetchSpec == Init /\ [][FetchNext]_vars

\* ------------------------------------------------------------ observers
CallIds == 1..Len(calls)
FetchIds == 1..Len(fetches)
SubIds == 1..Len(subs)
FetchesOf(c) == {f \in FetchIds : fetches[f].call = c}
SubsOf(c) == {s \in SubIds : subs[s].call = c}
BlockOf(c) == ValueOf(calls[c].blockNumber)

\* Positions of the trace entries of one kind about one fetch/subscription.
At(kind, id) == {i \in 1..Len(trace) : trace[i].kind = kind /\ trace[i].id = id}

\* ------------------------------------------------------------------ C1
\* C1 (as claimed): every completed trackEvent of a descriptor with
\* backFillBlockCount b and no fromBlock, at head h, has started a
\* historical fetch over exactly [h-1-b, h-1] and opened a live
\* subscription whose filter starts at block h-1.
C1_BackfillRangeAndSubscriptionStart ==
  \A c \in CallIds :
    LET e == calls[c].event IN
    (calls[c].pc = "returned" /\ IsUndefined(e.fromBlock) /\ ~IsUndefined(e.backFillBlockCount))
      => /\ \E f \in FetchesOf(c) :
              /\ fetches[f].fromBlock = BlockOf(c) - ValueOf(e.backFillBlockCount)
              /\ fetches[f].toBlock = BlockOf(c)
         /\ \E s \in SubsOf(c) : subs[s].params.fromBlock = Some(BlockOf(c))

\* ------------------------------------------------------------------ C2
\* C2 (as claimed): every trackEvent whose topic derivation succeeded has
\* opened exactly one live subscription, its filter starts at head-1, and
\* it was opened before any result of the call's backfill was delivered
\* (the subscription exists whatever the state of the historical fetch).
C2_OneImmediateSubscriptionAtHeadMinusOne ==
  \A c \in CallIds :
    calls[c].pc = "returned"
      => /\ Cardinality(SubsOf(c)) = 1
         /\ \A s \in SubsOf(c) :
              /\ subs[s].params.fromBlock = Some(BlockOf(c))
              /\ Cardinality(At("subscribe", s)) = 1
              /\ \A f \in FetchesOf(c) :
                   \A i \in At("subscribe", s) :
                     \A j \in At("onFetchedHistoricalEvents", f) \cup At("callback", f) : i < j

\* The part of C2 that the code does satisfy: exactly one subscription per
\* successful trackEvent, subscribe called with head-1, opened before any
\* backfill delivery; the filter carries head-1 unless head-1 is 0.
SubscriptionImmediateExceptBlockZero ==
  \A c \in CallIds :
    calls[c].pc = "returned"
      => /\ Cardinality(SubsOf(c)) = 1
         /\ \A s \in SubsOf(c) :
              /\ subs[s].params.fromBlock =
                   (IF BlockOf(c) = 0 THEN Undefined ELSE Some(BlockOf(c)))
              /\ Cardinality(At("subscribe", s)) = 1
              /\ \A f \in FetchesOf(c) :
                   \A i \in At("subscribe", s) :
                     \A j \in At("onFetchedHistoricalEvents", f) \cup At("callback", f) : i < j

\* ------------------------------------------------------------------ C3
\* C3 (as claimed): a completed subscribeToEvent has started a historical
\* fetch if and only if the descriptor supplies fromBlock or
\* backFillBlockCount.
C3_FetchIffStartSupplied ==
  \A c \in CallIds :
    LET e == calls[c].event IN
    calls[c].pc = "returned"
      => ((FetchesOf(c) # {}) <=>
            (~IsUndefined(e.fromBlock) \/ ~IsUndefined(e.backFillBlockCount)))

\* ------------------------------------------------------------------ C4
\* C4: a historical fetch started for a descriptor that supplies fromBlock
\* is requested over exactly [fromBlock, head-1], whatever the descriptor's
\* backFillBlockCount is, and every query sent for it starts at fromBlock.
C4_FromBlockWins ==
  \A f \in FetchIds :
    LET c == fetches[f].call
        e == calls[c].event
    IN ~IsUndefined(e.fromBlock)
         => /\ fetches[f].fromBlock = ValueOf(e.fromBlock)
            /\ fetches[f].toBlock = BlockOf(c)
            /\ \A i \in At("getLogs", f) :
                 trace[i].arg.params.fromBlock = <<"0x">> \o HexDigits(ValueOf(e.fromBlock))

\* C4 witness: a fetch was started for a descriptor carrying both fields,
\* where the backfill count would have given a different starting block.
C4_Witness ==
  \E f \in FetchIds :
    LET c == fetches[f].call
        e == calls[c].event
    IN /\ ~IsUndefined(e.fromBlock)
       /\ ~IsUndefined(e.backFillBlockCount)
       /\ BlockOf(c) - ValueOf(e.backFillBlockCount) # ValueOf(e.fromBlock)
       /\ At("getLogs", f) # {}

\* ------------------------------------------------------------------ C5
\* The normalization of a non-empty batch as seen afterwards: every log
\* parsed with the interface now cached under the first log's address.
NormalizedNow(logs) ==
  IF Len(logs) = 0 THEN <<>>
  ELSE compact([i \in 1..Len(logs) |->
                  parseEventLog(logs[i], ValueOf(abiInterfaces[logs[1].address]).abi)])

\* C5: a fetch whose transport failed n times and then succeeded has sent
\* n+1 queries, all with the same {address, topics, fromBlock, toBlock},
\* and has resolved with the normalized logs of the successful response
\* (handed through the parser when the descriptor has one).
C5_RetrySameQueryThenResult ==
  \A f \in FetchIds :
    /\ \A i, j \in At("getLogs", f) : trace[i].arg.params = trace[j].arg.params
    /\ fetches[f].pc \in {"attempt", "resolved"}
         => Cardinality(At("getLogs", f)) = fetches[f].failures + 1
    /\ fetches[f].pc = "resolved"
         => /\ ~IsUndefined(fetches[f].response)
            /\ fetches[f].result =
                 Some(Payload("seq", NormalizedNow(ValueOf(fetches[f].response)),
                              fetches[f].parser))

\* C5 witness: a fetch failed at least once, was retried with a range that
\* has an explicit end, and resolved with a non-empty normalized result.
C5_Witness ==
  \E f \in FetchIds :
    /\ fetches[f].pc = "resolved"
    /\ fetches[f].failures >= 1
    /\ fetches[f].toBlock # 0
    /\ ValueOf(fetches[f].result).items # <<>>

\* ------------------------------------------------------------------ C6
\* C6: a fetch whose transport failed is never rejected, it is waiting for
\* its timer, asking again, or resolved; and the fetched hook and the
\* callback of a fetch run only once it resolved, with its result.
C6_TransportFailureNeverSurfaced ==
  \A f \in FetchIds :
    /\ fetches[f].failures > 0 => fetches[f].pc \in {"timer", "attempt", "resolved"}
    /\ fetches[f].pc = "timer" => Cardinality(At("getLogs", f)) = fetches[f].failures
    /\ \A i \in At("onFetchedHistoricalEvents", f) \cup At("callback", f) :
         /\ fetches[f].pc = "resolved"
         /\ Some(trace[i].arg) = fetches[f].result

\* C6 witness: a transport failure happened and the query was asked again.
C6_Witness ==
  \E f \in FetchIds : fetches[f].failures >= 1 /\ fetches[f].pc = "attempt"

\* ------------------------------------------------------------------ C7
\* C7: under FairSpec, every backfill that has a query outstanding
\* eventually invokes the descriptor callback with the fetch's result,
\* however many transport failures come first.
C7_BackfillEventuallyDelivered ==
  \A f \in 1..MaxCalls :
    (f \in FetchIds /\ fetches[f].pc = "attempt")
      ~> (f \in FetchIds /\ \E i \in At("callback", f) : Some(trace[i].arg) = fetches[f].result)

\* C7 witness: the callback ran after the largest number of failures.
C7_Witness ==
  \E f \in FetchIds : fetches[f].failures = MaxFail /\ At("callback", f) # {}

\* ------------------------------------------------------------------ C8
Range(q) == {q[i] : i \in 1..Len(q)}

\* C8 (as claimed): no invocation of a callback or of a parser, on the
\* historical or the live path, carries an absent (null) record.
C8_NoNullReachesApplication ==
  \A i \in 1..Len(trace) :
    trace[i].kind \in {"callback", "liveCallback", "parser", "liveParser"}
      => Null \notin Range(trace[i].arg.items)

\* ------------------------------------------------------------------ C9
\* C9 (as claimed): on both paths the parser, when supplied, is applied to
\* a sequence of normalized records, never to a bare record, and the
\* callback receives that sequence or the parser's result for it.
C9_SameShapeOnBothPaths ==
  \A i \in 1..Len(trace) :
    trace[i].kind \in {"callback", "liveCallback", "parser", "liveParser"}
      => trace[i].arg.shape = "seq"

\* ------------------------------------------------------------------ C10
\* C10: the step in which a trackEvent for a name absent from its ABI
\* leaves its await rejects the call and changes nothing else: no fetch,
\* no subscription, no hook, parser or callback invocation, no request,
\* and no new tracked descriptor.
C10_UnknownEventStep ==
  \A c \in CallIds :
    (calls[c].pc = "awaitBlock" /\ UnknownEvent(calls[c].event) /\ calls'[c].pc # "awaitBlock")
      => /\ calls'[c].pc = "rejected"
         /\ UNCHANGED <<trackedEvents, fetches, subs, trace, abiInterfaces, pushes>>

C10_UnknownEventLeavesTrackerUnchanged == [][C10_UnknownEventStep]_vars

\* C10 witness: a trackEvent was rejected by the topic derivation.
C10_Witness ==
  \E c \in CallIds : calls[c].pc = "rejected" /\ calls[c].error = "UnknownEvent"

\* ------------------------------------------------------------------ C11
\* C11: an error notification leaves the subscription open, and every
\* decodable log pushed on a subscription, whatever errors were reported on
\* it before, is normalized and handed to the callback (through the parser
\* when the descriptor has one) right after the push.
C11_ErrorDoesNotEndSubscription ==
  \A s \in SubIds :
    /\ subs[s].open
    /\ \A i \in At("push", s) :
         Decodes(trace[i].arg, subs[s].abi)
           => LET j == IF subs[s].parser THEN i + 2 ELSE i + 1
              IN /\ j <= Len(trace)
                 /\ trace[j].kind = "liveCallback"
                 /\ trace[j].id = s
                 /\ trace[j].arg.items = <<parseEventLog(trace[i].arg, subs[s].abi)>>
                 /\ trace[j].arg.items[1].decoded

\* C11 witness: a decodable log was pushed on a subscription after an
\* error had been reported on it.
C11_Witness ==
  \E s \in SubIds :
    \E i \in At("pushError", s), j \in At("push", s) :
      i < j /\ Decodes(trace[j].arg, subs[s].abi)

\* ------------------------------------------------------------------ C12
Cached == {a \in Addresses : ~IsUndefined(abiInterfaces[a])}

\* The fetches that resolve in the step, with a batch starting at address a.
ResolvingAt(a) ==
  {f \in FetchIds :
     /\ fetches[f].pc = "attempt"
     /\ fetches'[f].pc = "resolved"
     /\ ValueOf(fetches'[f].response) # <<>>
     /\ ValueOf(fetches'[f].response)[1].address = a}

C12_CacheState ==
  /\ \A a, b \in Cached :
       a # b => ValueOf(abiInterfaces[a]).id # ValueOf(abiInterfaces[b]).id
  /\ \A f \in FetchIds :
       (fetches[f].pc = "resolved" /\ ValueOf(fetches[f].response) # <<>>)
         => /\ ValueOf(fetches[f].response)[1].address \in Cached
            /\ ValueOf(fetches[f].result).items = NormalizedNow(ValueOf(fetches[f].response))

C12_CacheStep ==
  \A a \in Addresses :
    /\ a \in Cached => abiInterfaces'[a] = abiInterfaces[a]
    /\ (a \notin Cached /\ ~IsUndefined(abiInterfaces'[a]))
         => \E f \in ResolvingAt(a) : ValueOf(abiInterfaces'[a]).abi = fetches[f].abi
    /\ (a \notin Cached /\ ResolvingAt(a) # {}) => ~IsUndefined(abiInterfaces'[a])

\* C12: the cache holds one interface per address, all of them distinct
\* objects; the first non-empty batch whose first log has an address builds
\* the entry from that fetch's ABI; an entry, once there, is never changed
\* or removed; and every non-empty batch is parsed with the entry of its
\* first log's address, whatever ABI the fetch was given.
C12_OneInterfacePerAddressNeverReplaced == []C12_CacheState /\ [][C12_CacheStep]_vars

\* C12 witness: two fetches with different ABIs resolved batches of the
\* same address.
C12_Witness ==
  \E f, g \in FetchIds :
    /\ fetches[f].pc = "resolved" /\ fetches[g].pc = "resolved"
    /\ fetches[f].abi # fetches[g].abi
    /\ ValueOf(fetches[f].response) # <<>> /\ ValueOf(fetches[g].response) # <<>>
    /\ ValueOf(fetches[f].response)[1].address = ValueOf(fetches[g].response)[1].address

\* Both addresses have an interface cached.
BothAddressesCached == Cardinality(Cached) = 2

\* ------------------------------------------------------------------ C13
\* C13 (as claimed): every resolved batch yields exactly the records of
\* its logs whose topic is an event of the fetch's own ABI, in the
\* transport's order, whatever fetches came before.
C13_BatchKeepsExactlyMatchingLogs ==
  \A f \in FetchIds :
    fetches[f].pc = "resolved"
      => LET logs == ValueOf(fetches[f].response)
         IN ValueOf(fetches[f].result).items =
              compact([i \in 1..Len(logs) |-> parseEventLog(logs[i], fetches[f].abi)])

\* ------------------------------------------------------------------ C14
Count(q, x) == Cardinality({i \in 1..Len(q) : q[i] = x})

C14_TrackedState ==
  /\ \A d \in Descriptors :
       Count(trackedEvents, d) =
         Cardinality({c \in CallIds : calls[c].pc = "returned" /\ calls[c].event = d})
  /\ \A c \in CallIds : calls[c].pc = "returned" <=> calls[c].result = Some(TRUE)

C14_TrackedStep ==
  /\ Len(trackedEvents') >= Len(trackedEvents)
  /\ \A i \in 1..Len(trackedEvents) : trackedEvents'[i] = trackedEvents[i]

\* C14: the tracked list holds one entry per trackEvent call that returned
\* (and each of those returned true), and a step only ever appends to it.
C14_TrackedEventsAppendOnly == []C14_TrackedState /\ [][C14_TrackedStep]_vars

\* C14 witness: two calls returned, one of them after the other was tracked.
C14_Witness ==
  /\ Len(trackedEvents) = 2
  /\ \E c \in CallIds : calls[c].pc = "returned" /\ calls[c].event = trackedEvents[2]

\* ------------------------------------------------------------------ C15
\* C15: for a backfill over a non-empty range [from, head-1], every query
\* ends at head-1 and the call's subscription filter starts at head-1, so
\* both cover the boundary block; and nothing is held back because the
\* other path delivered it: a resolved backfill hands every record of its
\* response to the callback, and every push is handed to the live callback
\* at once, in whatever order the transport makes the two happen.
C15_BoundaryOverlapNoDeduplication ==
  \A c \in CallIds : \A f \in FetchesOf(c) : \A s \in SubsOf(c) :
    /\ (fetches[f].fromBlock <= fetches[f].toBlock /\ At("getLogs", f) # {})
         => /\ \A i \in At("getLogs", f) :
                 trace[i].arg.params.toBlock = <<"0x">> \o HexDigits(BlockOf(c))
            /\ subs[s].params.fromBlock = Some(BlockOf(c))
    /\ fetches[f].pc = "resolved"
         => \E j \in At("callback", f) :
              trace[j].arg.items = NormalizedNow(ValueOf(fetches[f].response))
    /\ \A i \in At("push", s) :
         \E j \in {i + 1, i + 2} :
           /\ j <= Len(trace)
           /\ trace[j].kind = "liveCallback"
           /\ trace[j].id = s
           /\ trace[j].arg.items = <<parseEventLog(trace[i].arg, subs[s].abi)>>

\* C15 witness: one record reached the callback from the subscription and,
\* later, again from the backfill of the same trackEvent call, whose range
\* ends at the block the subscription starts at.
C15_Witness ==
  \E c \in CallIds : \E f \in FetchesOf(c) : \E s \in SubsOf(c) :
    /\ fetches[f].fromBlock <= fetches[f].toBlock
    /\ subs[s].params.fromBlock = Some(fetches[f].toBlock)
    /\ \E i \in At("liveCallback", s), j \in At("callback", f) :
         /\ i < j
         /\ trace[i].arg.items[1].decoded
         /\ trace[i].arg.items[1] \in Range(trace[j].arg.items)

\* ------------------------------------------------------------------ C16
\* The positional array the claim describes: the caller's value where the
\* caller supplied one, null where the parameter is omitted or null.
SuppliedArray(event) ==
  LET inputs == Inputs(event.name)
  IN [i \in 1..Len(inputs) |->
        IF inputs[i] \in DOMAIN event.params THEN event.params[inputs[i]] ELSE JsNull]

\* C16 (as claimed): the topic list a trackEvent call subscribes with is
\* the encoding of the array that has, per declared input in declaration
\* order, the caller-supplied value if there is one and null otherwise.
C16_TopicsFromSuppliedValues ==
  \A s \in SubIds :
    subs[s].params.topics =
      encodeFilterTopics(calls[subs[s].call].event.name,
                         SuppliedArray(calls[subs[s].call].event))

\* ------------------------------------------------------------------ C17
\* The declared parameter names of an event.
DeclaredNames(name) == {Inputs(name)[i] : i \in 1..Len(Inputs(name))}

\* C17 (as claimed): the values mapping of every normalized record has
\* exactly the declared parameter names of the record's event as keys.
C17_ValuesHaveExactlyDeclaredNames ==
  \A i \in 1..Len(trace) :
    trace[i].kind \in {"parser", "liveParser", "callback", "liveCallback"} =>
      \A j \in 1..Len(trace[i].arg.items) :
        LET r == trace[i].arg.items[j]
        IN r.decoded => DOMAIN r.values = DeclaredNames(r.name)

\* The same for the events that declare no parameter named `length`, with
\* the section 8 scenario: only declared names, hex strings in lower case,
\* numbers as decimal strings.
ValuesOfEventsWithoutLengthParameter ==
  \A i \in 1..Len(trace) :
    trace[i].kind \in {"parser", "liveParser", "callback", "liveCallback"} =>
      \A j \in 1..Len(trace[i].arg.items) :
        LET r == trace[i].arg.items[j]
        IN r.decoded /\ "length" \notin DeclaredNames(r.name) =>
             /\ DOMAIN r.values = DeclaredNames(r.name)
             /\ \A k \in DOMAIN r.values : r.values[k] \in {"1000", "0xdef", "0xcd"}

\* ------------------------------------------------------------------ C18
\* C18: for every backfill the fetching hook ran exactly once and before
\* every query of the fetch; the fetched hook and the callback ran exactly
\* once each if the transport answered and not at all before that; and
\* when they ran it was after the last query, the hook right before the
\* callback, both with the fetch's result.
C18_HooksInOrderOnce ==
  \A f \in FetchIds :
    /\ Cardinality(At("onFetchingHistoricalEvents", f)) = 1
    /\ \A i \in At("onFetchingHistoricalEvents", f), j \in At("getLogs", f) : i < j
    /\ Cardinality(At("onFetchedHistoricalEvents", f)) =
         (IF fetches[f].pc = "resolved" THEN 1 ELSE 0)
    /\ Cardinality(At("callback", f)) = (IF fetches[f].pc = "resolved" THEN 1 ELSE 0)
    /\ \A i \in At("onFetchedHistoricalEvents", f) :
         /\ \A j \in At("getLogs", f) : j < i
         /\ At("callback", f) = {i + 1}
         /\ Some(trace[i].arg) = fetches[f].result
         /\ trace[i + 1].arg = trace[i].arg

\* C18 witness: a backfill whose first query failed delivered a non-empty
\* result to the fetched hook and the callback.
C18_Witness ==
  \E f \in FetchIds :
    /\ fetches[f].failures >= 1
    /\ \E i \in At("onFetchedHistoricalEvents", f) : trace[i].arg.items # <<>>
    /\ At("callback", f) # {}

\* ------------------------------------------------------------------ C19
\* C19 (as claimed): all the queries of one fetchLogs call, the first and
\* every retry, go through the same transport path with the same
\* parameters.
C19_RetryUsesSamePathAndArguments ==
  \A f \in FetchIds :
    \A i, j \in At("getLogs", f) : trace[i].arg = trace[j].arg

\* ------------------------------------------------------------------ C20
\* C20: the parser of a historical fetch has run exactly once if the fetch
\* has a parser and resolved, and not at all otherwise (no parser, or no
\* successful response yet, whatever the number of failed attempts); it
\* ran after the last query, on the untransformed normalized sequence of
\* the successful response.
C20_ParserOnceOnSuccessfulResponse ==
  \A f \in FetchIds :
    /\ Cardinality(At("parser", f)) =
         (IF fetches[f].parser /\ fetches[f].pc = "resolved" THEN 1 ELSE 0)
    /\ \A i \in At("parser", f) :
         /\ \A j \in At("getLogs", f) : j < i
         /\ trace[i].arg =
              Payload("seq", NormalizedNow(ValueOf(fetches[f].response)), FALSE)

\* C20 witness: a fetch with a parser resolved with a non-empty normalized
\* sequence after a failed attempt.
C20_Witness ==
  \E f \in FetchIds :
    /\ fetches[f].parser
    /\ fetches[f].pc = "resolved"
    /\ fetches[f].failures >= 1
    /\ \E i \in At("parser", f) : trace[i].arg.items # <<>>

====
